---------------------------- MODULE Spec2Model ----------------------------
(***************************************************************************)
(* A model of merge_feeds.py: one run of main() collects items from the    *)
(* configured podcast feeds and YouTube channels, downloading missing      *)
(* audio, then sorts, trims and emits the feed.  Runs repeat over the same *)
(* working directory (sources.yml, youtube_audio/, .cache/).               *)
(*                                                                         *)
(* Text is a sequence of one-character strings, so that lower(),           *)
(* startswith(), endswith(), split() and re.sub() are computed as the      *)
(* script computes them.  Python's None is the value None below; a missing *)
(* attribute or dict key reads as None.  A literal the script only         *)
(* concatenates (a URL root, a directory name) is a single element.        *)
(***************************************************************************)
EXTENDS Integers, Sequences, FiniteSets, TLC

None == <<"None">>

\* Python truthiness of a text-or-None value: None and '' are falsy.
Falsy(x) == x = None \/ x = <<>>

\* `x or d`
OrElse(x, d) == IF Falsy(x) THEN d ELSE x

UpperChars == <<"A","B","C","D","E","F","G","H","I","J","K","L","M",
                "N","O","P","Q","R","S","T","U","V","W","X","Y","Z">>

LowerChars == <<"a","b","c","d","e","f","g","h","i","j","k","l","m",
                "n","o","p","q","r","s","t","u","v","w","x","y","z">>

Digits == {"0","1","2","3","4","5","6","7","8","9"}

Whitespace == {" "}

LowerChar(c) ==
  IF \E i \in 1..26 : UpperChars[i] = c
  THEN LowerChars[CHOOSE i \in 1..26 : UpperChars[i] = c]
  ELSE c

\* str.lower()
Lower(s) == [i \in 1..Len(s) |-> LowerChar(s[i])]

\* str.startswith(p)
StartsWith(s, p) == Len(p) <= Len(s) /\ SubSeq(s, 1, Len(p)) = p

\* str.endswith(p)
EndsWith(s, p) == Len(p) <= Len(s) /\ SubSeq(s, Len(s) - Len(p) + 1, Len(s)) = p

\* str.strip(): leading and trailing characters of cs removed.
RECURSIVE StripLeft(_, _)
StripLeft(s, cs) ==
  IF s # <<>> /\ Head(s) \in cs THEN StripLeft(Tail(s), cs) ELSE s

RECURSIVE StripRight(_, _)
StripRight(s, cs) ==
  IF s # <<>> /\ s[Len(s)] \in cs THEN StripRight(SubSeq(s, 1, Len(s) - 1), cs) ELSE s

Strip(s, cs) == StripRight(StripLeft(s, cs), cs)

\* s.split('/')[-1]: the text after the last '/'.
RECURSIVE LastSegment(_)
LastSegment(s) ==
  IF \E i \in 1..Len(s) : s[i] = "/"
  THEN LastSegment(SubSeq(s, (CHOOSE i \in 1..Len(s) : s[i] = "/") + 1, Len(s)))
  ELSE s

SlugChars == {LowerChars[i] : i \in 1..26} \cup Digits

\* re.sub(r'[^0-9a-z]+', '-', text): every maximal run of other characters
\* becomes one hyphen.
RECURSIVE SubNonAlnum(_, _)
SubNonAlnum(s, inRun) ==
  IF s = <<>> THEN <<>>
  ELSE IF Head(s) \in SlugChars THEN <<Head(s)>> \o SubNonAlnum(Tail(s), FALSE)
  ELSE IF inRun THEN SubNonAlnum(Tail(s), TRUE)
  ELSE <<"-">> \o SubNonAlnum(Tail(s), TRUE)

Channel == <<"c","h","a","n","n","e","l">>

slugify(text) ==
  LET t == SubNonAlnum(Lower(Strip(text, Whitespace)), FALSE)
  IN  OrElse(Strip(t, {"-"}), Channel)

AudioPrefix == <<"a","u","d","i","o","/">>

AudioExts == { <<".","m","p","3">>, <<".","m","4","a">>,
               <<".","a","a","c">>, <<".","o","g","g">> }

\* A link dict of feedparser: href, type and length, each text or None.
EmptyLink == [href |-> None, type |-> None, length |-> None]

is_audio_enclosure(link) ==
  IF link = EmptyLink THEN FALSE
  ELSE LET href  == Lower(OrElse(link.href, <<>>))
           ltype == Lower(OrElse(link.type, <<>>))
       IN  StartsWith(ltype, AudioPrefix) \/ \E e \in AudioExts : EndsWith(href, e)

\* None where a link dict is expected.
NoLink == [none |-> TRUE]

\* The first audio link of links, or None.
RECURSIVE pick_audio_enclosure(_)
pick_audio_enclosure(links) ==
  IF links = <<>> THEN NoLink
  ELSE IF is_audio_enclosure(Head(links)) THEN Head(links)
  ELSE pick_audio_enclosure(Tail(links))

\* hashlib.sha1(...).hexdigest(), taken as injective: the digest determines
\* its input, so it is written as the tagged input.
Sha1(s) == <<"sha1">> \o s

PodcastNs == <<"p","o","d","c","a","s","t","-">>
YoutubeNs == <<"y","o","u","t","u","b","e","-">>

\* email.utils.format_datetime: the RFC-2822 text of an instant.
format_pubdate(dt) == <<"rfc2822", dt>>

-----------------------------------------------------------------------------
(* Bounds of the model. *)

MaxRuns == 2
MaxCap == 2
MaxTotal == 2
MaxLen == 4
MaxDate == 2

(* Program constants. *)

DefaultMaxVideos == 3

\* An absent integer key of the configuration.
Absent == -1

\* An absent *_parsed time of a feed entry.
NoTime == 0

\* datetime.datetime.now(timezone): the instant of the run, later than the
\* dated entries of the model's sources or equal to the latest of them.
Now == 3

RawRoot == <<"https://raw.githubusercontent.com/LLNA3312/my-rss-feed/main/">>
AudioDir == <<"youtube_audio">>
WatchUrl == <<"https://www.youtube.com/watch?v=">>
VideoTitle == <<"YouTube Video ">>
Mp3 == <<".","m","p","3">>
Untitled == <<"Untitled">>
AudioMpeg == <<"a","u","d","i","o","/","m","p","e","g">>
Zero == <<"0">>

Min(a, b) == IF a <= b THEN a ELSE b

\* s[:n] for n >= 0
Take(s, n) == SubSeq(s, 1, Min(n, Len(s)))

-----------------------------------------------------------------------------
(* The sources the model's configurations name. *)

HttpP == <<"h","t","t","p",":","/","/","p","/">>
F1 == HttpP \o <<"1">>
F2 == HttpP \o <<"2">>

V1 == <<"v","1">>
V2 == <<"v","2">>
V3 == <<"v","3">>

Link(href, type, length) == [href |-> href, type |-> type, length |-> length]

Entry(id, link, title, links, published, updated) ==
  [id |-> id, link |-> link, title |-> title, links |-> links,
   published_parsed |-> published, updated_parsed |-> updated]

TextHtml == <<"t","e","x","t","/","h","t","m","l">>

\* feedparser.parse(feed_url).entries of each feed.
FeedEntries(feed_url) ==
  IF feed_url = F1 THEN
    << Entry(<<"e","1">>, None, <<"T","1">>,
             << Link(HttpP \o <<"x">>, TextHtml, None),
                Link(HttpP \o <<"a",".","M","P","3">>, None, <<"1","2">>) >>,
             2, NoTime),
       Entry(<<"e","2">>, HttpP \o <<"y">>, <<"T","2">>,
             << Link(HttpP \o <<"y">>, TextHtml, None) >>,
             3, NoTime),
       Entry(None, HttpP \o <<"z">>, None,
             << EmptyLink, Link(None, <<"A","u","d","i","o","/","M","P","4">>, None) >>,
             NoTime, 1),
       Entry(None, None, <<"T","4">>,
             << Link(HttpP \o <<"b",".","o","g","g">>, <<"a","u","d","i","o","/","o","g","g">>, None),
                Link(HttpP \o <<"c",".","m","p","3">>, None, None) >>,
             NoTime, NoTime) >>
  ELSE
    << Entry(V1, HttpP \o <<"w">>, <<"T","5">>,
             << Link(HttpP \o <<"d",".","m","4","a">>, None, <<"7">>),
                Link(HttpP \o <<"e",".","a","a","c">>, None, None) >>,
             2, 3),
       Entry(<<"e","6">>, None, <<"T","6">>, <<>>, 3, NoTime) >>

HttpsY == <<"h","t","t","p","s",":","/","/","y","/">>
U1 == HttpsY \o <<"@","a","b">>
U2 == HttpsY \o <<"c","/","A","B">>
U3 == HttpsY \o <<"@","c","d","/">>

D1 == <<"2","0","2","5","0","1","0","1">>
D2 == <<"2","0","2","5","0","1","0","2">>
DBad == <<"2","0","2","5","1","3","4","0">>
DShort == <<"2","0","2","5">>

\* An entry of the listing that extract_info returns: a video, a nested
\* playlist ('entries' in entry), or None.
Video(id, title, upload_date) ==
  [shape |-> "video", id |-> id, title |-> title, upload_date |-> upload_date,
   entries |-> <<>>]

Playlist(es) ==
  [shape |-> "playlist", id |-> None, title |-> None, upload_date |-> None,
   entries |-> es]

NoEntry ==
  [shape |-> "none", id |-> None, title |-> None, upload_date |-> None,
   entries |-> <<>>]

\* ydl.extract_info(channel_url, download=False)['entries'] of each channel.
ChannelListing(channel_url) ==
  IF channel_url = U1 THEN
    << NoEntry, Video(V1, <<"A","1">>, D2), Video(V2, None, DBad) >>
  ELSE IF channel_url = U2 THEN
    << Playlist(<< Video(V1, <<"A","1">>, D2), NoEntry >>),
       Video(None, <<"A","0">>, D1),
       Video(V3, <<"A","3">>, DShort) >>
  ELSE
    << Video(V1, <<"A","1">>, D1), Video(V3, <<"A","3">>, None) >>

\* datetime.strptime(upload_date, '%Y%m%d') succeeds on the texts that name
\* a calendar day; the instant of each day of the model's calendar.
IsCalendarDay(text) == text \in {D1, D2}

DayInstant(text) == IF text = D1 THEN 1 ELSE 2

\* An entry of youtube_channels: a mapping (url and max_videos, each
\* possibly missing) or a plain URL string.
Dict(url, max_videos) == [form |-> "dict", url |-> url, max_videos |-> max_videos]

Str(url) == [form |-> "str", url |-> url, max_videos |-> Absent]

\* The podcasts and youtube_channels lists of the model's configurations.
PodcastLists == { <<>>, <<F1>>, <<F2, F1>> }

ChannelLists ==
  { <<>>,
    << Dict(U1, Absent) >>,
    << Dict(U1, Absent), Dict(U2, 1) >>,
    << Dict(None, Absent), Dict(U3, Absent), Dict(U1, 1) >>,
    << Dict(U3, 1), Str(U1) >> }

\* The contents sources.yml may have.
Configs ==
  [ max_items_per_source   : 0..MaxCap,
    max_total_items        : 0..MaxTotal,
    max_videos_per_channel : {Absent},
    podcasts               : PodcastLists,
    youtube_channels       : ChannelLists ]

NoConfig == [absent |-> TRUE]

-----------------------------------------------------------------------------
(* The state: the working directory, which outlives a run, and the         *)
(* variables of main().                                                    *)

VARIABLES
  cfgFile,        \* sources.yml: its contents, or NoConfig when there is no file
  ytdlp,          \* whether yt_dlp imported (YoutubeDL is not None)
  files,          \* the paths of the mp3 files under youtube_audio/
  archive,        \* <<slug, id>>: the lines of .cache/<slug>_archive.txt
  run,            \* the number of the current invocation
  pc,             \* the position of main()
  error,          \* the exception that ended the run, if one did
  cfg,            \* the loaded configuration
  items,          \* the collected items
  fi,             \* index of the current feed_url in podcasts
  parsed,         \* the entries of the current feed
  ei,             \* index of the current entry in parsed.entries
  count,          \* items appended from the current feed
  ci,             \* index of the current channel_cfg in youtube_channels
  channel_url,    \* the current channel's URL
  slug,           \* the current channel's slug
  video_entries,  \* the current channel's listing, flattened and cut
  vi,             \* index of the current entry in video_entries
  channel_count,  \* items appended from the current channel
  fg,             \* the entries added to the feed generator, in call order
  feedXml,        \* what this run wrote to feed.xml, NoFeed until it does
  collected,      \* history: items as they were when the sort began
  events,         \* history: one record per video this run materialised
  stored,         \* history: <<slug, id>> an earlier run saw and left with its mp3
  failed          \* history: a feed, a listing or a download failed in this run

disk == <<cfgFile, ytdlp, files, archive>>
podcastVars == <<fi, parsed, ei, count>>
channelVars == <<ci, channel_url, slug, video_entries, vi, channel_count>>
outVars == <<fg, feedXml, collected, stored>>
vars == <<cfgFile, ytdlp, files, archive, run, pc, error, cfg, items,
          fi, parsed, ei, count, ci, channel_url, slug, video_entries, vi,
          channel_count, fg, feedXml, collected, events, stored, failed>>

NoFeed == [written |-> FALSE, entries |-> <<>>]

\* os.path.join('youtube_audio', slug, f'{video_id}.mp3')
OutFile(s, video_id) == AudioDir \o <<"/">> \o s \o <<"/">> \o video_id \o Mp3

\* os.path.exists(archive_path): yt_dlp creates the archive with its first line.
ArchiveExists(s) == \E line \in archive : line[1] = s

\* The files and archive lines a working directory may hold before the
\* first run: nothing, the audio of U1's first video, the archived id of
\* U1's second video without its audio.
InitialFiles == SUBSET { OutFile(slugify(LastSegment(U1)), V1) }

InitialArchive == SUBSET { <<slugify(LastSegment(U1)), V2>> }

\* The state of main() at its first line.
Fresh ==
  /\ pc = "start"
  /\ error = "none"
  /\ cfg = NoConfig
  /\ items = <<>>
  /\ fi = 1 /\ parsed = <<>> /\ ei = 1 /\ count = 0
  /\ ci = 1 /\ channel_url = None /\ slug = None
  /\ video_entries = <<>> /\ vi = 1 /\ channel_count = 0
  /\ fg = <<>>
  /\ collected = <<>>
  /\ failed = FALSE

Init ==
  /\ cfgFile \in Configs \cup {NoConfig}
  /\ ytdlp \in BOOLEAN
  /\ files \in InitialFiles
  /\ archive \in InitialArchive
  /\ run = 1
  /\ feedXml = NoFeed
  /\ events = {}
  /\ stored = {}
  /\ Fresh

-----------------------------------------------------------------------------
(* main(), lines 86-104: open and load sources.yml.  A missing file raises *)
(* out of main().                                                          *)

LoadConfig ==
  /\ pc = "start"
  /\ IF cfgFile = NoConfig
     THEN /\ pc' = "crashed"
          /\ error' = "FileNotFoundError"
          /\ cfg' = cfg
     ELSE /\ pc' = "podcasts"
          /\ error' = error
          /\ cfg' = cfgFile
  /\ UNCHANGED <<disk, run, items, podcastVars, channelVars, outVars, events, failed>>

(* Lines 108-114: the next feed is parsed, or parsing raises and the feed  *)
(* is skipped; after the last feed the channels follow.                    *)

ParseFeed ==
  /\ pc = "podcasts"
  /\ fi <= Len(cfg.podcasts)
  /\ \E ok \in BOOLEAN :
       IF ok
       THEN /\ parsed' = FeedEntries(cfg.podcasts[fi])
            /\ ei' = 1
            /\ count' = 0
            /\ pc' = "entries"
            /\ UNCHANGED <<fi, failed>>
       ELSE /\ fi' = fi + 1
            /\ failed' = TRUE
            /\ UNCHANGED <<parsed, ei, count, pc>>
  /\ UNCHANGED <<disk, run, error, cfg, items, channelVars, outVars, events>>

PodcastsDone ==
  /\ pc = "podcasts"
  /\ fi > Len(cfg.podcasts)
  /\ pc' = "channels"
  /\ UNCHANGED <<disk, run, error, cfg, items, podcastVars, channelVars, outVars,
                 events, failed>>

\* Lines 119-125: published time, else updated time, else now.
EntryDate(entry) ==
  IF entry.published_parsed # NoTime THEN entry.published_parsed
  ELSE IF entry.updated_parsed # NoTime THEN entry.updated_parsed
  ELSE Now

\* Lines 126-136: the item of a feed entry whose audio link is enc.
PodcastItem(entry, enc, feed_url) ==
  LET guid_source == OrElse(OrElse(entry.id, entry.link), OrElse(enc.href, <<>>))
  IN  [ title            |-> IF entry.title = None THEN Untitled ELSE entry.title,
        link             |-> IF entry.link = None THEN feed_url ELSE entry.link,
        enclosure_url    |-> enc.href,
        enclosure_type   |-> OrElse(enc.type, AudioMpeg),
        enclosure_length |-> OrElse(enc.length, Zero),
        pubdate          |-> EntryDate(entry),
        guid             |-> Sha1(PodcastNs \o guid_source) ]

(* Lines 115-139: one entry of the current feed.  An entry without an      *)
(* audio link is passed over; otherwise its item is appended, and the loop *)
(* breaks once count reaches max_items_per_source.                         *)

PodcastEntry ==
  /\ pc = "entries"
  /\ ei <= Len(parsed)
  /\ LET entry == parsed[ei]
         enc   == pick_audio_enclosure(entry.links)
     IN  IF enc \in {NoLink, EmptyLink}
         THEN /\ ei' = ei + 1
              /\ UNCHANGED <<items, count, fi, pc>>
         ELSE /\ items' = Append(items, PodcastItem(entry, enc, cfg.podcasts[fi]))
              /\ count' = count + 1
              /\ IF count + 1 >= cfg.max_items_per_source
                 THEN /\ pc' = "podcasts"
                      /\ fi' = fi + 1
                      /\ ei' = ei
                 ELSE /\ ei' = ei + 1
                      /\ UNCHANGED <<fi, pc>>
  /\ UNCHANGED <<disk, run, error, cfg, parsed, channelVars, outVars, events, failed>>

EntriesDone ==
  /\ pc = "entries"
  /\ ei > Len(parsed)
  /\ pc' = "podcasts"
  /\ fi' = fi + 1
  /\ UNCHANGED <<disk, run, error, cfg, items, parsed, ei, count, channelVars,
                 outVars, events, failed>>

-----------------------------------------------------------------------------
(* The channel collector. *)

\* Lines 174-182: None entries are dropped and a nested playlist is
\* replaced by its truthy entries.
RECURSIVE Flatten(_)
Flatten(entries) ==
  IF entries = <<>> THEN <<>>
  ELSE LET entry == Head(entries)
       IN  IF entry.shape = "none" THEN Flatten(Tail(entries))
           ELSE IF entry.shape = "playlist"
           THEN SelectSeq(entry.entries, LAMBDA e : e.shape # "none")
                  \o Flatten(Tail(entries))
           ELSE <<entry>> \o Flatten(Tail(entries))

\* Lines 143 and 152: the channel's own max_videos, else the configured
\* max_videos_per_channel, else 3.
MaxVideos(channel_cfg) ==
  LET global_max_videos ==
        IF cfg.max_videos_per_channel = Absent THEN DefaultMaxVideos
        ELSE cfg.max_videos_per_channel
  IN  IF channel_cfg.max_videos = Absent THEN global_max_videos
      ELSE channel_cfg.max_videos

(* Lines 146-186: the next channel.  Without yt_dlp the loop breaks.       *)
(* channel_cfg.get raises AttributeError on a plain string, which nothing  *)
(* catches.  A mapping without url is passed over.  extract_info raises    *)
(* (the channel is skipped), returns None (no entries), or lists.          *)

ChannelBegin ==
  /\ pc = "channels"
  /\ ci <= Len(cfg.youtube_channels)
  /\ LET channel_cfg == cfg.youtube_channels[ci]
     IN  IF ~ytdlp
         THEN /\ pc' = "sort"
              /\ UNCHANGED <<error, channelVars, failed>>
         ELSE IF channel_cfg.form = "str"
         THEN /\ pc' = "crashed"
              /\ error' = "AttributeError"
              /\ UNCHANGED <<channelVars, failed>>
         ELSE IF Falsy(channel_cfg.url)
         THEN /\ ci' = ci + 1
              /\ UNCHANGED <<pc, error, channel_url, slug, video_entries, vi,
                             channel_count, failed>>
         ELSE /\ channel_url' = channel_cfg.url
              /\ slug' = slugify(LastSegment(channel_cfg.url))
              /\ error' = error
              /\ \E info \in {"raise", "none", "listing"} :
                   IF info = "raise"
                   THEN /\ ci' = ci + 1
                        /\ failed' = TRUE
                        /\ UNCHANGED <<pc, video_entries, vi, channel_count>>
                   ELSE /\ video_entries' =
                             IF info = "none" THEN <<>>
                             ELSE Take(Flatten(ChannelListing(channel_cfg.url)),
                                       MaxVideos(channel_cfg))
                        /\ vi' = 1
                        /\ channel_count' = 0
                        /\ pc' = "videos"
                        /\ failed' = (failed \/ info = "none")
                        /\ ci' = ci
  /\ UNCHANGED <<disk, run, cfg, items, podcastVars, outVars, events>>

ChannelsDone ==
  /\ pc = "channels"
  /\ ci > Len(cfg.youtube_channels)
  /\ pc' = "sort"
  /\ UNCHANGED <<disk, run, error, cfg, items, podcastVars, channelVars, outVars,
                 events, failed>>

\* Lines 192-201: an 8-character upload_date that names a day is that day;
\* anything else is now.
UploadDate(upload_date) ==
  IF ~Falsy(upload_date) /\ Len(upload_date) = 8
  THEN IF IsCalendarDay(upload_date) THEN DayInstant(upload_date) ELSE Now
  ELSE Now

\* Lines 206-213, mutated: the archive is not consulted.
NeedDownloadFileOnly(exists, archiveExists, readOk, archived) == ~exists

\* Lines 206-213: download unless the file exists or the archive, when it
\* exists and can be read, holds the id.
NeedDownload(exists, archiveExists, readOk, archived) ==
  IF archiveExists /\ readOk /\ archived THEN FALSE ELSE ~exists

\* os.path.getsize(outfile) as text.
FileSize == <<"4","2">>

\* Lines 239-249: the item of a listed video.
VideoItem(entry, outfile, length) ==
  [ title            |-> OrElse(entry.title, VideoTitle \o entry.id),
    link             |-> WatchUrl \o entry.id,
    enclosure_url    |-> RawRoot \o outfile,
    enclosure_type   |-> AudioMpeg,
    enclosure_length |-> length,
    pubdate          |-> UploadDate(entry.upload_date),
    guid             |-> Sha1(YoutubeNs \o entry.id) ]

(* Lines 187-252: one entry of the current channel's listing.  readOk is   *)
(* whether reading an existing archive succeeds; got is whether the        *)
(* download left the mp3 (yt_dlp then records the id in the archive, and   *)
(* it downloads nothing whose id the archive it was given already holds;   *)
(* a failed download, raised or swallowed by ignoreerrors, leaves          *)
(* nothing).  Nothing else runs while main() does, so getsize of a file    *)
(* that exists succeeds.                                                   *)

VideoEntry ==
  /\ pc = "videos"
  /\ vi <= Len(video_entries)
  /\ LET entry == video_entries[vi]
     IN  IF Falsy(entry.id)
         THEN /\ vi' = vi + 1
              /\ UNCHANGED <<files, archive, items, channel_count, ci, pc, events, failed>>
         ELSE \E readOk \in BOOLEAN, got \in BOOLEAN :
                LET outfile  == OutFile(slug, entry.id)
                    exists   == outfile \in files
                    archived == <<slug, entry.id>> \in archive
                    need_download ==
                      NeedDownload(exists, ArchiveExists(slug), readOk, archived)
                    ok       == need_download /\ got /\ ~archived
                    length   == IF outfile \in files' THEN FileSize ELSE Zero
                IN  /\ files' = IF ok THEN files \cup {outfile} ELSE files
                    /\ archive' = IF ok THEN archive \cup {<<slug, entry.id>>} ELSE archive
                    /\ events' = events \cup
                         {[ run |-> run, url |-> channel_url, slug |-> slug,
                            id |-> entry.id, exists |-> exists, archived |-> archived,
                            hit |-> (ArchiveExists(slug) /\ readOk /\ archived),
                            invoked |-> need_download, ok |-> ok ]}
                    /\ failed' = (failed \/ (need_download /\ ~ok))
                    /\ items' = Append(items, VideoItem(entry, outfile, length))
                    /\ channel_count' = channel_count + 1
                    /\ IF channel_count + 1 >= cfg.max_items_per_source
                       THEN /\ pc' = "channels"
                            /\ ci' = ci + 1
                            /\ vi' = vi
                       ELSE /\ vi' = vi + 1
                            /\ UNCHANGED <<ci, pc>>
  /\ UNCHANGED <<cfgFile, ytdlp, run, error, cfg, podcastVars, channel_url, slug,
                 video_entries, outVars>>

VideosDone ==
  /\ pc = "videos"
  /\ vi > Len(video_entries)
  /\ pc' = "channels"
  /\ ci' = ci + 1
  /\ UNCHANGED <<disk, run, error, cfg, items, podcastVars, channel_url, slug,
                 video_entries, vi, channel_count, outVars, events, failed>>

-----------------------------------------------------------------------------
(* Merge, rank and trim; emit. *)

\* x placed before the elements it equals: ties come out in reverse.
InsertDescBeforeTies(sorted, x) ==
  LET k == Cardinality({i \in 1..Len(sorted) : sorted[i].pubdate > x.pubdate})
  IN  SubSeq(sorted, 1, k) \o <<x>> \o SubSeq(sorted, k + 1, Len(sorted))

\* x placed by ascending pubdate: reverse=True forgotten.
InsertAsc(sorted, x) ==
  LET k == Cardinality({i \in 1..Len(sorted) : sorted[i].pubdate <= x.pubdate})
  IN  SubSeq(sorted, 1, k) \o <<x>> \o SubSeq(sorted, k + 1, Len(sorted))

\* x placed after every element of sorted whose pubdate is not earlier.
InsertDesc(sorted, x) ==
  LET k == Cardinality({i \in 1..Len(sorted) : sorted[i].pubdate >= x.pubdate})
  IN  SubSeq(sorted, 1, k) \o <<x>> \o SubSeq(sorted, k + 1, Len(sorted))

\* Line 255: list.sort(key=pubdate, reverse=True), which is stable: equal
\* keys keep the order they had.
RECURSIVE SortDesc(_)
SortDesc(s) ==
  IF s = <<>> THEN <<>>
  ELSE InsertDesc(SortDesc(SubSeq(s, 1, Len(s) - 1)), s[Len(s)])

Sort ==
  /\ pc = "sort"
  /\ collected' = items
  /\ items' = SortDesc(items)
  /\ pc' = "trim"
  /\ UNCHANGED <<disk, run, error, cfg, podcastVars, channelVars, fg, feedXml,
                 events, stored, failed>>

\* Line 257
Trim ==
  /\ pc = "trim"
  /\ items' = Take(items, cfg.max_total_items)
  /\ pc' = "emit"
  /\ UNCHANGED <<disk, run, error, cfg, podcastVars, channelVars, outVars,
                 events, failed>>

\* Lines 261-266: the feed entry made of an item.
FeedEntry(it) ==
  [ title     |-> it.title,
    link      |-> it.link,
    guid      |-> it.guid,
    pubDate   |-> format_pubdate(it.pubdate),
    enclosure |-> <<it.enclosure_url, it.enclosure_length, it.enclosure_type>> ]

\* Lines 260-266: fg.add_entry() for each item, in order.
Emit ==
  /\ pc = "emit"
  /\ fg' = [i \in 1..Len(items) |-> FeedEntry(items[i])]
  /\ pc' = "write"
  /\ UNCHANGED <<disk, run, error, cfg, items, podcastVars, channelVars, feedXml,
                 collected, events, stored, failed>>

\* Lines 268-272
Write ==
  /\ pc = "write"
  /\ feedXml' = [written |-> TRUE, entries |-> fg]
  /\ pc' = "done"
  /\ UNCHANGED <<disk, run, error, cfg, items, podcastVars, channelVars, fg,
                 collected, events, stored, failed>>

\* The script is invoked again in the same working directory.
NextRun ==
  /\ pc \in {"done", "crashed"}
  /\ run < MaxRuns
  /\ run' = run + 1
  /\ pc' = "start"
  /\ error' = "none"
  /\ cfg' = NoConfig
  /\ items' = <<>>
  /\ fi' = 1 /\ parsed' = <<>> /\ ei' = 1 /\ count' = 0
  /\ ci' = 1 /\ channel_url' = None /\ slug' = None
  /\ video_entries' = <<>> /\ vi' = 1 /\ channel_count' = 0
  /\ fg' = <<>>
  /\ collected' = <<>>
  /\ failed' = FALSE
  /\ feedXml' = NoFeed
  /\ events' = {}
  /\ stored' = stored \cup { <<e.slug, e.id>> : e \in { x \in events : x.exists \/ x.ok } }
  /\ UNCHANGED disk

Next ==
  \/ LoadConfig
  \/ ParseFeed
  \/ PodcastsDone
  \/ PodcastEntry
  \/ EntriesDone
  \/ ChannelBegin
  \/ ChannelsDone
  \/ VideoEntry
  \/ VideosDone
  \/ Sort
  \/ Trim
  \/ Emit
  \/ Write
  \/ NextRun

Spec == Init /\ [][Next]_vars

-----------------------------------------------------------------------------
(* The rank stage alone (lines 254-272), entered with any collected list   *)
(* of at most MaxLen items and any max_total_items.                        *)

SeqsUpTo(S, n) == UNION { [1..k -> S] : k \in 0..n }

RankItem(pubdate, title) ==
  [ title            |-> title,
    link             |-> F1,
    enclosure_url    |-> HttpP \o title \o Mp3,
    enclosure_type   |-> AudioMpeg,
    enclosure_length |-> Zero,
    pubdate          |-> pubdate,
    guid             |-> Sha1(PodcastNs \o title) ]

RankItems == { RankItem(p, t) : p \in 1..MaxDate, t \in { <<"a">>, <<"b">> } }

InitRank ==
  /\ cfgFile \in [ max_items_per_source   : {MaxLen},
                   max_total_items        : 0..MaxTotal,
                   max_videos_per_channel : {Absent},
                   podcasts               : {<<F1>>},
                   youtube_channels       : {<<>>} ]
  /\ ytdlp = TRUE
  /\ files = {}
  /\ archive = {}
  /\ run = 1
  /\ feedXml = NoFeed
  /\ events = {}
  /\ stored = {}
  /\ pc = "sort"
  /\ error = "none"
  /\ cfg = cfgFile
  /\ items \in SeqsUpTo(RankItems, MaxLen)
  /\ fi = 2 /\ parsed = <<>> /\ ei = 1 /\ count = 0
  /\ ci = 1 /\ channel_url = None /\ slug = None
  /\ video_entries = <<>> /\ vi = 1 /\ channel_count = 0
  /\ fg = <<>>
  /\ collected = <<>>
  /\ failed = FALSE

NextRank ==
  \/ Sort
  \/ Trim
  \/ Emit
  \/ Write

SpecRank == InitRank /\ [][NextRank]_vars

-----------------------------------------------------------------------------
(* Properties. *)

\* An enclosure_url built from the raw-hosting root: a channel-derived item.
IsLocal(url) == url # <<>> /\ Head(url) = Head(RawRoot)

\* The path under the working directory that a local enclosure_url names.
LocalPath(url) == Tail(url)

Occurrences(s, x) == Cardinality({ i \in 1..Len(s) : s[i] = x })

IsPrefix(s, t) == Len(s) <= Len(t) /\ SubSeq(t, 1, Len(s)) = s

WithPubdate(s, p) == SelectSeq(s, LAMBDA x : x.pubdate = p)

\* The sort and the trim of this run are over.
Ranked == pc \in {"emit", "write", "done"}

\* C1: every channel-derived item names an mp3 that exists under
\* youtube_audio/ (files are never removed, so one that existed when the
\* item was collected still does).
C1_EnclosureFileExists ==
  \A i \in DOMAIN items :
    IsLocal(items[i].enclosure_url) => LocalPath(items[i].enclosure_url) \in files

C3_SortedAndTrimmed ==
  Ranked =>
    /\ Len(items) = Min(Len(collected), cfg.max_total_items)
    /\ \A i \in 1..(Len(items) - 1) : items[i].pubdate >= items[i + 1].pubdate
    /\ \A i \in DOMAIN items :
         Occurrences(items, items[i]) <= Occurrences(collected, items[i])
    /\ \A d \in DOMAIN collected :
         Occurrences(items, collected[d]) < Occurrences(collected, collected[d])
           => \A k \in DOMAIN items : collected[d].pubdate <= items[k].pubdate
    /\ pc \in {"write", "done"} =>
         /\ Len(fg) = Len(items)
         /\ \A i \in DOMAIN items :
              /\ fg[i].guid = items[i].guid
              /\ fg[i].title = items[i].title
              /\ fg[i].pubDate = format_pubdate(items[i].pubdate)

\* The collected list was out of order and longer than the cap, and two or
\* more items were kept.
C3_Witness ==
  /\ pc = "done"
  /\ Len(collected) > cfg.max_total_items
  /\ Len(items) >= 2
  /\ \E i \in 1..(Len(collected) - 1) : collected[i].pubdate < collected[i + 1].pubdate

\* C10: the items of one pubdate that survive the trim are the first of
\* the collected items of that pubdate, in collection order.
C10_StableOrder ==
  Ranked =>
    \A p \in { collected[i].pubdate : i \in DOMAIN collected } :
      IsPrefix(WithPubdate(items, p), WithPubdate(collected, p))

\* Two different items of one pubdate were kept, and the sort moved a later
\* item in front of them.
C10_Witness ==
  /\ pc = "done"
  /\ \E i, j \in DOMAIN items :
       i < j /\ items[i].pubdate = items[j].pubdate /\ items[i] # items[j]
  /\ items[1] # collected[1]

\* C4: no source appends more than max_items_per_source items: count and
\* channel_count, which count the appends of the current feed and channel,
\* never exceed it.
C4_PerSourceCap ==
  cfg # NoConfig =>
    /\ count <= cfg.max_items_per_source
    /\ channel_count <= cfg.max_items_per_source

\* C5: a podcast item and a channel item never share a guid, and two
\* channel items that differ in slug or video id (so in enclosure_url)
\* never share one.
C5_GuidUnique ==
  \A i, j \in DOMAIN items :
    LET a == items[i]
        b == items[j]
    IN  /\ IsLocal(a.enclosure_url) # IsLocal(b.enclosure_url) => a.guid # b.guid
        /\ ( /\ IsLocal(a.enclosure_url)
             /\ IsLocal(b.enclosure_url)
             /\ a.enclosure_url # b.enclosure_url ) => a.guid # b.guid

\* C6: a run in which a feed, a listing or a download failed is not
\* aborted: it goes through every configured source and writes the feed.
C6_FailuresNeverAbort ==
  failed =>
    /\ pc # "crashed"
    /\ pc = "done" =>
         /\ feedXml.written
         /\ fi > Len(cfg.podcasts)
         /\ ytdlp => ci > Len(cfg.youtube_channels)

\* C7: a run is aborted only by the absence of sources.yml; no entry of
\* youtube_channels, mapping or plain string, aborts it.
C7_OnlyMissingConfigIsFatal ==
  pc = "crashed" => cfgFile = NoConfig

\* C8: channels with different URLs never use the same archive and media
\* subdirectory (both are named by the slug).
C8_ArchivePerChannel ==
  \A e1, e2 \in events : e1.url # e2.url => e1.slug # e2.slug

\* A link qualifies as audio: type starting with audio/ or href ending in
\* an audio extension, case-insensitively.
Qualifies(link) ==
  \/ link.type # None /\ StartsWith(Lower(link.type), AudioPrefix)
  \/ link.href # None /\ \E e \in AudioExts : EndsWith(Lower(link.href), e)

\* C9: every podcast item's enclosure_url is not empty and is the URL of a
\* qualifying link of an entry of a configured feed.
C9_AudioEnclosure ==
  \A i \in DOMAIN items :
    ~IsLocal(items[i].enclosure_url) =>
      /\ ~Falsy(items[i].enclosure_url)
      /\ \E f \in DOMAIN cfg.podcasts :
           \E n \in DOMAIN FeedEntries(cfg.podcasts[f]) :
             \E l \in DOMAIN FeedEntries(cfg.podcasts[f])[n].links :
               LET link == FeedEntries(cfg.podcasts[f])[n].links[l]
               IN  Qualifies(link) /\ link.href = items[i].enclosure_url

=============================================================================
